---------------------------- MODULE Spec2Model ----------------------------
(***************************************************************************)
(* autoXRD.tabulate_cifs: ingestion of a CIF directory, grouping of the    *)
(* ordered structures by structural prototype and selection of one         *)
(* representative per group (closest to room temperature, then most        *)
(* recent).  Each of the three public functions is modelled as a loop, one *)
(* action per iteration of its outer for statement, applied to inputs      *)
(* drawn from bounded sets.                                                *)
(*                                                                         *)
(* Strings are sequences of character codes, None is the value NoneVal,    *)
(* temperatures are integral numbers of kelvin, a structure object is      *)
(* identified by a natural number (its position in the input).             *)
(***************************************************************************)
EXTENDS Integers, Sequences, FiniteSets

VARIABLES
    pc,                 \* the loop that runs ("ingest", "discover", "form",
                        \* "select"), the function that returned ("ingested",
                        \* "grouped", "selected") or "raised"
    idx,                \* 1-based position of the running outer loop
    err,                \* the exception that ended the call, or "none"
    listing,            \* os.listdir(cif_directory): the files, in listing order
    stoich_structs,     \* get_stoichiometric_info: accumulated ordered structures
    stoich_refs,        \* get_unique_struct_info: the input structures
    temps,              \* temperatures parallel to stoich_structs / stoich_refs
    dates,              \* dates parallel to stoich_structs / stoich_refs
    fit,                \* the outcome of matcher.fit on every ordered pair
    unique_frameworks,  \* frameworks discovered so far
    grouped_structs,    \* per group: its structures
    grouped_temps,      \* per group: its temperatures
    grouped_dates,      \* per group: its dates
    candidate_structs,  \* get_recent_RT_entry: candidates of the last group done
    candidate_dates,    \* and their dates
    filtered_cmpds      \* get_recent_RT_entry: one structure per group done

vars == <<pc, idx, err, listing, stoich_structs, stoich_refs, temps, dates, fit,
          unique_frameworks, grouped_structs, grouped_temps, grouped_dates,
          candidate_structs, candidate_dates, filtered_cmpds>>

(***************************************************************************)
(* Bounds of the model.                                                    *)
(***************************************************************************)
MaxFiles == 3     \* files in the directory
MaxStructs == 3   \* structures handed to get_unique_struct_info
MaxGroups == 2    \* groups handed to get_recent_RT_entry
MaxEntries == 3   \* entries of all those groups together

(***************************************************************************)
(* Values.                                                                 *)
(***************************************************************************)
RT == 293           \* room temperature, the literal 293.0
DefaultTemp == 0    \* temp of a CIF without a temperature marker, 0.0
NoneVal == <<>>     \* None; split() never yields an empty token, so no
                    \* date string of the program is the empty sequence

\* "2020-01-01", "2021-06-15", "293", "300" as character codes
D2020 == <<50, 48, 50, 48, 45, 48, 49, 45, 48, 49>>
D2021 == <<50, 48, 50, 49, 45, 48, 54, 45, 49, 53>>
T293 == <<50, 57, 51>>
T300 == <<51, 48, 48>>

Temps == {DefaultTemp, RT - 1, RT + 1}
Dates == {NoneVal, D2020, D2021}

Abs(x) == IF x < 0 THEN -x ELSE x
Min2(a, b) == IF a < b THEN a ELSE b

\* str.__lt__: lexicographic comparison by character code
RECURSIVE StrLess(_, _)
StrLess(a, b) ==
    IF b = <<>> THEN FALSE
    ELSE IF a = <<>> THEN TRUE
    ELSE IF Head(a) < Head(b) THEN TRUE
    ELSE IF Head(a) > Head(b) THEN FALSE
    ELSE StrLess(Tail(a), Tail(b))

(***************************************************************************)
(* parse_measurement_conditions and get_stoichiometric_info                *)
(*                                                                         *)
(* A file is [parses, is_ordered, lines]: whether Structure.from_file      *)
(* accepts it, whether the structure it holds has only fully occupied      *)
(* sites, and its lines.  A line is [has_date, has_temp, last]: whether it *)
(* contains each marker, and its last whitespace-delimited token.          *)
(***************************************************************************)
DateLine(tok) == [has_date |-> TRUE, has_temp |-> FALSE, last |-> tok]
TempLine(tok) == [has_date |-> FALSE, has_temp |-> TRUE, last |-> tok]

CifFull    == [parses |-> TRUE, is_ordered |-> TRUE,
               lines |-> <<DateLine(D2021), TempLine(T300)>>]
CifBare    == [parses |-> TRUE, is_ordered |-> TRUE, lines |-> <<>>]
CifTwice   == [parses |-> TRUE, is_ordered |-> TRUE,
               lines |-> <<TempLine(T300), DateLine(D2021), DateLine(D2020), TempLine(T293)>>]
CifPartial == [parses |-> TRUE, is_ordered |-> FALSE,
               lines |-> <<DateLine(D2020), TempLine(T293)>>]
CifBadTemp == [parses |-> TRUE, is_ordered |-> TRUE, lines |-> <<TempLine(D2020)>>]
CifBroken  == [parses |-> FALSE, is_ordered |-> FALSE, lines |-> <<>>]

Files == {CifFull, CifBare, CifTwice, CifPartial, CifBadTemp, CifBroken}

\* float(token) on the tokens of the model, which are made of digits and "-":
\* the value of a non-empty run of digits, a ValueError on anything else
IsDigit(c) == c \in 48..57
FloatRaises(tok) == tok = <<>> \/ \E k \in 1..Len(tok) : ~IsDigit(tok[k])
RECURSIVE FloatValue(_)
FloatValue(tok) ==
    IF tok = <<>> THEN 0
    ELSE 10 * FloatValue(SubSeq(tok, 1, Len(tok) - 1)) + (tok[Len(tok)] - 48)

\* parse_measurement_conditions: the scan of the lines, from the state
\* [raised, temp, date] reached so far; the last marker line of a kind wins
RECURSIVE ScanLines(_, _)
ScanLines(lines, acc) ==
    IF lines = <<>> \/ acc.raised THEN acc
    ELSE LET line == Head(lines)
             d == IF line.has_date THEN line.last ELSE acc.date
         IN IF line.has_temp /\ FloatRaises(line.last)
            THEN [raised |-> TRUE, temp |-> acc.temp, date |-> d]
            ELSE ScanLines(Tail(lines),
                     [raised |-> FALSE,
                      temp |-> IF line.has_temp THEN FloatValue(line.last) ELSE acc.temp,
                      date |-> d])

parse_measurement_conditions(file) ==
    ScanLines(file.lines, [raised |-> FALSE, temp |-> DefaultTemp, date |-> NoneVal])

\* mg.Structure.from_file on the k-th file of the listing
StructureFromFile(k, file) == [id |-> k, is_ordered |-> file.is_ordered]

KeepsAll(struct) == TRUE

\* if struct.is_ordered
Keeps(struct) == struct.is_ordered

InitIngest ==
    /\ \E n \in 0..MaxFiles : listing \in [1..n -> Files]
    /\ pc = "ingest"
    /\ idx = 1
    /\ err = "none"
    /\ stoich_structs = <<>>
    /\ temps = <<>>
    /\ dates = <<>>
    /\ stoich_refs = <<>>
    /\ fit = <<>>
    /\ unique_frameworks = <<>>
    /\ grouped_structs = <<>>
    /\ grouped_temps = <<>>
    /\ grouped_dates = <<>>
    /\ candidate_structs = <<>>
    /\ candidate_dates = <<>>
    /\ filtered_cmpds = <<>>

\* lines 24-30: one file of the listing
IngestFile ==
    /\ pc = "ingest"
    /\ idx <= Len(listing)
    /\ IF ~listing[idx].parses
       THEN /\ pc' = "raised"
            /\ err' = "ParseError"
            /\ UNCHANGED <<idx, stoich_structs, temps, dates>>
       ELSE \E struct \in {StructureFromFile(idx, listing[idx])} :
            IF ~Keeps(struct)
            THEN /\ idx' = idx + 1
                 /\ UNCHANGED <<pc, err, stoich_structs, temps, dates>>
            ELSE \E td \in {parse_measurement_conditions(listing[idx])} :
                 /\ stoich_structs' = Append(stoich_structs, struct)
                 /\ IF td.raised
                    THEN /\ pc' = "raised"
                         /\ err' = "ValueError"
                         /\ UNCHANGED <<idx, temps, dates>>
                    ELSE /\ temps' = Append(temps, td.temp)
                         /\ dates' = Append(dates, td.date)
                         /\ idx' = idx + 1
                         /\ UNCHANGED <<pc, err>>
    /\ UNCHANGED <<listing, stoich_refs, fit, unique_frameworks, grouped_structs,
                   grouped_temps, grouped_dates, candidate_structs, candidate_dates,
                   filtered_cmpds>>

\* line 31
ReturnIngest ==
    /\ pc = "ingest"
    /\ idx > Len(listing)
    /\ pc' = "ingested"
    /\ UNCHANGED <<idx, err, listing, stoich_structs, stoich_refs, temps, dates, fit,
                   unique_frameworks, grouped_structs, grouped_temps, grouped_dates,
                   candidate_structs, candidate_dates, filtered_cmpds>>

NextIngest == IngestFile \/ ReturnIngest

SpecIngest == InitIngest /\ [][NextIngest]_vars

(***************************************************************************)
(* get_unique_struct_info                                                  *)
(*                                                                         *)
(* The matcher is a function of the ordered pair of structures: fit[a, b]  *)
(* is the outcome of matcher.fit(a, b).  Nothing is assumed of it.         *)
(***************************************************************************)
\* the (temperature, date) pairs of the inputs of get_unique_struct_info,
\* which carries them along without reading them: the defaults of a CIF
\* without markers and two measured pairs.  The k-th input takes the pool's
\* entry k + shift, cyclically, so neighbouring inputs differ.
CondPool == <<<<DefaultTemp, NoneVal>>, <<RT + 1, D2021>>, <<RT - 1, D2020>>>>
CondAt(k, shift) == CondPool[((k + shift) % Len(CondPool)) + 1]

IsUniqueFlipped(struct_1, frameworks, matcher) ==
    \A k \in 1..Len(frameworks) : ~matcher[frameworks[k], struct_1]

IsUniqueLast(struct_1, frameworks, matcher) ==
    frameworks = <<>> \/ ~matcher[struct_1, frameworks[Len(frameworks)]]

\* lines 72-75: unique stays True iff matcher.fit(struct_1, struct_2) is False
\* for every struct_2 of unique_frameworks (the loop does not break)
IsUnique(struct_1, frameworks, matcher) ==
    \A k \in 1..Len(frameworks) : ~matcher[struct_1, frameworks[k]]

ZipLenShort(refs, ts, ds) == Min2(Len(refs), Min2(Len(ts), Len(ds))) - 1

\* the number of triples zip(stoich_refs, temps, dates) yields
ZipLen(refs, ts, ds) == Min2(Len(refs), Min2(Len(ts), Len(ds)))

\* lines 81-82: the positions of the zipped input whose structure the
\* framework matches, ascending
RECURSIVE ClassPositions(_, _, _, _)
ClassPositions(framework, refs, n, matcher) ==
    IF n <= 0 THEN <<>>
    ELSE LET front == ClassPositions(framework, refs, n - 1, matcher)
         IN IF matcher[framework, refs[n]] THEN Append(front, n) ELSE front

TempClassAll(positions, ts) == ts

\* lines 83-85: the appends to struct_class, temp_class and date_class
StructClass(positions, refs) == [j \in 1..Len(positions) |-> refs[positions[j]]]
TempClass(positions, ts) == [j \in 1..Len(positions) |-> ts[positions[j]]]
DateClass(positions, ds) == [j \in 1..Len(positions) |-> ds[positions[j]]]

InitGroup ==
    /\ \E n \in 0..MaxStructs :
          /\ stoich_refs = [k \in 1..n |-> k]
          /\ fit \in [(1..n) \X (1..n) -> BOOLEAN]
          /\ \E shift \in 0..(Len(CondPool) - 1) :
                /\ temps = [k \in 1..n |-> CondAt(k, shift)[1]]
                /\ dates = [k \in 1..n |-> CondAt(k, shift)[2]]
    /\ pc = "discover"
    /\ idx = 1
    /\ err = "none"
    /\ unique_frameworks = <<>>
    /\ grouped_structs = <<>>
    /\ grouped_temps = <<>>
    /\ grouped_dates = <<>>
    /\ listing = <<>>
    /\ stoich_structs = <<>>
    /\ candidate_structs = <<>>
    /\ candidate_dates = <<>>
    /\ filtered_cmpds = <<>>

\* lines 71-77: one structure of stoich_refs
DiscoverStruct ==
    /\ pc = "discover"
    /\ idx <= Len(stoich_refs)
    /\ unique_frameworks' =
          IF IsUnique(stoich_refs[idx], unique_frameworks, fit)
          THEN Append(unique_frameworks, stoich_refs[idx])
          ELSE unique_frameworks
    /\ idx' = idx + 1
    /\ UNCHANGED <<pc, err, listing, stoich_structs, stoich_refs, temps, dates, fit,
                   grouped_structs, grouped_temps, grouped_dates,
                   candidate_structs, candidate_dates, filtered_cmpds>>

\* line 78: the first loop is over, the second starts
StartGroups ==
    /\ pc = "discover"
    /\ idx > Len(stoich_refs)
    /\ pc' = "form"
    /\ idx' = 1
    /\ grouped_structs' = <<>>
    /\ grouped_temps' = <<>>
    /\ grouped_dates' = <<>>
    /\ UNCHANGED <<err, listing, stoich_structs, stoich_refs, temps, dates, fit,
                   unique_frameworks, candidate_structs, candidate_dates,
                   filtered_cmpds>>

\* lines 79-88: the group of one framework
FormGroup ==
    /\ pc = "form"
    /\ idx <= Len(unique_frameworks)
    /\ \E positions \in {ClassPositions(unique_frameworks[idx], stoich_refs,
                             ZipLen(stoich_refs, temps, dates), fit)} :
          /\ grouped_structs' = Append(grouped_structs, StructClass(positions, stoich_refs))
          /\ grouped_temps' = Append(grouped_temps, TempClass(positions, temps))
          /\ grouped_dates' = Append(grouped_dates, DateClass(positions, dates))
    /\ idx' = idx + 1
    /\ UNCHANGED <<pc, err, listing, stoich_structs, stoich_refs, temps, dates, fit,
                   unique_frameworks, candidate_structs, candidate_dates,
                   filtered_cmpds>>

\* line 89
ReturnGroups ==
    /\ pc = "form"
    /\ idx > Len(unique_frameworks)
    /\ pc' = "grouped"
    /\ UNCHANGED <<idx, err, listing, stoich_structs, stoich_refs, temps, dates, fit,
                   unique_frameworks, grouped_structs, grouped_temps, grouped_dates,
                   candidate_structs, candidate_dates, filtered_cmpds>>

NextGroup == DiscoverStruct \/ StartGroups \/ FormGroup \/ ReturnGroups

SpecGroup == InitGroup /\ [][NextGroup]_vars

\* both stages whose outputs are parallel sequences
SpecIngestGroup == (InitIngest \/ InitGroup) /\ [][NextIngest \/ NextGroup]_vars

(***************************************************************************)
(* get_recent_RT_entry                                                     *)
(***************************************************************************)
\* zip(struct_class, normalized_temps, date_class), normalized_temps being
\* abs(np.array(temp_class) - 293.0); zip stops at the shortest input
ZippedInfo(struct_class, temp_class, date_class) ==
    [k \in 1..Min2(Len(struct_class), Min2(Len(temp_class), Len(date_class))) |->
        [struct |-> struct_class[k],
         dev    |-> Abs(temp_class[k] - RT),
         date   |-> date_class[k]]]

\* sorted(zipped_info, key=lambda x: x[1]) on (struct, dev, date): ascending
\* in dev and stable (an entry goes behind the earlier entries of equal dev)
RECURSIVE SortedByTemp(_)
SortedByTemp(info) ==
    IF info = <<>> THEN <<>>
    ELSE LET x == info[Len(info)]
             front == SortedByTemp(SubSeq(info, 1, Len(info) - 1))
             notAfter(e) == e.dev <= x.dev
             after(e) == e.dev > x.dev
         IN SelectSeq(front, notAfter) \o <<x>> \o SelectSeq(front, after)

\* sorted(zipped_info, key=lambda x: x[1]) on (struct, date): ascending in the
\* date string and stable
RECURSIVE SortedByDate(_)
SortedByDate(info) ==
    IF info = <<>> THEN <<>>
    ELSE LET x == info[Len(info)]
             front == SortedByDate(SubSeq(info, 1, Len(info) - 1))
             notAfter(e) == ~StrLess(x.date, e.date)
             after(e) == StrLess(x.date, e.date)
         IN SelectSeq(front, notAfter) \o <<x>> \o SelectSeq(front, after)

\* the second sorted() compares date keys with <, and every key of a list of
\* two or more takes part in a comparison: None there is a TypeError
DateSortRaises(info) ==
    Len(info) >= 2 /\ \E k \in 1..Len(info) : info[k].date = NoneVal

IsCandidateAtLeast(entry, best_entry) == entry.dev >= best_entry.dev

\* entry[1] == best_entry[1]
IsCandidate(entry, best_entry) == entry.dev = best_entry.dev

\* the loop over sorted_info filling candidate_structs and candidate_dates
Candidates(sorted_info) ==
    LET best_entry == sorted_info[1]
        keep(e) == IsCandidate(e, best_entry)
    IN SelectSeq(sorted_info, keep)

FinalFirst(sorted_info) == sorted_info[1]

\* sorted_info[-1]
FinalEntry(sorted_info) == sorted_info[Len(sorted_info)]

FirstLatest(cands) ==
    LET k == CHOOSE k \in 1..Len(cands) :
                 /\ \A j \in 1..Len(cands) : ~StrLess(cands[k].date, cands[j].date)
                 /\ \A j \in 1..(k - 1) : cands[j].date # cands[k].date
    IN cands[k]

\* sorted(zipped_info, key=lambda x: x[1])[-1] on the candidates
MostRecent(cands) == FinalEntry(SortedByDate(cands))

\* one iteration of the for loop: the chosen entry of one group; defined when
\* the group is not empty and the date sort does not raise
SelectEntry(struct_class, temp_class, date_class) ==
    MostRecent(Candidates(SortedByTemp(ZippedInfo(struct_class, temp_class, date_class))))

\* sum of a sequence of naturals
RECURSIVE SumSeq(_)
SumSeq(s) == IF s = <<>> THEN 0 ELSE Head(s) + SumSeq(Tail(s))

\* the groups handed to get_recent_RT_entry: at most MaxGroups parallel
\* groups, empty ones included, of at most MaxEntries entries together;
\* structure k is the k-th entry over all groups
InitSelect ==
    /\ \E n \in 0..MaxGroups :
       \E lens \in [1..n -> 0..MaxEntries] :
          /\ SumSeq(lens) <= MaxEntries
          /\ \E ts \in [1..SumSeq(lens) -> Temps] :
             \E ds \in [1..SumSeq(lens) -> Dates] :
               LET off(g) == SumSeq(SubSeq(lens, 1, g - 1)) IN
               /\ grouped_structs = [g \in 1..n |-> [k \in 1..lens[g] |-> off(g) + k]]
               /\ grouped_temps = [g \in 1..n |-> [k \in 1..lens[g] |-> ts[off(g) + k]]]
               /\ grouped_dates = [g \in 1..n |-> [k \in 1..lens[g] |-> ds[off(g) + k]]]
    /\ pc = "select"
    /\ idx = 1
    /\ err = "none"
    /\ filtered_cmpds = <<>>
    /\ candidate_structs = <<>>
    /\ candidate_dates = <<>>
    /\ listing = <<>>
    /\ stoich_structs = <<>>
    /\ stoich_refs = <<>>
    /\ temps = <<>>
    /\ dates = <<>>
    /\ fit = <<>>
    /\ unique_frameworks = <<>>

NumGroups == Min2(Len(grouped_structs), Min2(Len(grouped_temps), Len(grouped_dates)))

\* lines 105-118: one group, from zip to filtered_cmpds.append
SelectGroup ==
    /\ pc = "select"
    /\ idx <= NumGroups
    /\ \E sorted_info \in {SortedByTemp(ZippedInfo(grouped_structs[idx],
                               grouped_temps[idx], grouped_dates[idx]))} :
          IF sorted_info = <<>>
          THEN \* sorted_info[0] of an empty list
               /\ pc' = "raised"
               /\ err' = "IndexError"
               /\ UNCHANGED <<idx, candidate_structs, candidate_dates, filtered_cmpds>>
          ELSE \E cands \in {Candidates(sorted_info)} :
               /\ candidate_structs' = [k \in 1..Len(cands) |-> cands[k].struct]
               /\ candidate_dates' = [k \in 1..Len(cands) |-> cands[k].date]
               /\ IF DateSortRaises(cands)
                  THEN /\ pc' = "raised"
                       /\ err' = "TypeError"
                       /\ UNCHANGED <<idx, filtered_cmpds>>
                  ELSE /\ filtered_cmpds' = Append(filtered_cmpds, MostRecent(cands).struct)
                       /\ idx' = idx + 1
                       /\ UNCHANGED <<pc, err>>
    /\ UNCHANGED <<listing, stoich_structs, stoich_refs, temps, dates, fit,
                   unique_frameworks, grouped_structs, grouped_temps, grouped_dates>>

\* line 119
ReturnSelect ==
    /\ pc = "select"
    /\ idx > NumGroups
    /\ pc' = "selected"
    /\ UNCHANGED <<idx, err, listing, stoich_structs, stoich_refs, temps, dates, fit,
                   unique_frameworks, grouped_structs, grouped_temps, grouped_dates,
                   candidate_structs, candidate_dates, filtered_cmpds>>

NextSelect == SelectGroup \/ ReturnSelect

SpecSelect == InitSelect /\ [][NextSelect]_vars

(***************************************************************************)
(* Properties of get_recent_RT_entry, checked under SpecSelect.            *)
(***************************************************************************)
Range(seq) == {seq[k] : k \in 1..Len(seq)}

GroupIds == 1..Len(grouped_structs)
EntryIds(g) == 1..Len(grouped_structs[g])
Dev(g, k) == Abs(grouped_temps[g][k] - RT)
IsMinDev(g, k) == \A j \in EntryIds(g) : Dev(g, k) <= Dev(g, j)
\* entry k of group g has the least deviation and, among the entries with
\* the least deviation, the greatest date string
IsBest(g, k) ==
    /\ IsMinDev(g, k)
    /\ \A j \in EntryIds(g) :
          IsMinDev(g, j) => ~StrLess(grouped_dates[g][k], grouped_dates[g][j])

GroupsNonEmpty == \A g \in GroupIds : grouped_structs[g] # <<>>
DatesAreStrings == \A g \in GroupIds : NoneVal \notin Range(grouped_dates[g])

\* C1: given non-empty groups whose dates are all strings, get_recent_RT_entry
\* does not raise, yields one structure per group in group order, and the
\* structure of group g is that of an entry with the least |temperature - 293|
\* of the group and the lexicographically greatest date among those entries.
C1_OnePerGroupClosestThenLatest ==
    (pc \in {"select", "selected", "raised"} /\ GroupsNonEmpty /\ DatesAreStrings) =>
        /\ pc # "raised"
        /\ pc = "selected" => Len(filtered_cmpds) = Len(grouped_structs)
        /\ \A g \in 1..Len(filtered_cmpds) :
              \E k \in EntryIds(g) :
                  filtered_cmpds[g] = grouped_structs[g][k] /\ IsBest(g, k)

\* two groups returned, one of them holding a tie on the deviation between an
\* entry dated 2020-01-01 and a later-listed or earlier-listed one dated
\* 2021-06-15, which is the one selected
C1_Witness ==
    /\ pc = "selected" /\ GroupsNonEmpty /\ DatesAreStrings
    /\ Len(grouped_structs) = 2
    /\ \E g \in GroupIds : \E k, j \in EntryIds(g) :
          /\ Dev(g, k) = Dev(g, j) /\ IsMinDev(g, k)
          /\ grouped_dates[g][k] = D2021 /\ grouped_dates[g][j] = D2020
          /\ k < j
          /\ filtered_cmpds[g] = grouped_structs[g][k]

\* C6: every non-empty group, also one whose entries carry the defaults of
\* parse_measurement_conditions (temperature 0.0, date None), is processed
\* without an error and contributes exactly one structure.
C6_MissingMetadataNonFatal ==
    (pc \in {"select", "selected", "raised"} /\ GroupsNonEmpty) =>
        /\ err = "none"
        /\ pc = "selected" => Len(filtered_cmpds) = Len(grouped_structs)

\* the temperature of the entry whose structure is s (structures are distinct)
TempOfStruct(s) ==
    LET g == CHOOSE g \in GroupIds : s \in Range(grouped_structs[g])
        k == CHOOSE k \in EntryIds(g) : grouped_structs[g][k] = s
    IN grouped_temps[g][k]

\* C8 as stated: two entries that both become date tie-break candidates have
\* identical temperature values.
C8_TiesOnlyForIdenticalTemps ==
    pc \in {"select", "selected", "raised"} =>
        \A a, b \in Range(candidate_structs) : TempOfStruct(a) = TempOfStruct(b)

\* C8 amended: two entries that both become candidates have equal deviations
\* |temperature - 293|; the temperatures themselves may differ.
C8_TiesOnlyForEqualDeviation ==
    pc \in {"select", "selected", "raised"} =>
        \A a, b \in Range(candidate_structs) :
            Abs(TempOfStruct(a) - RT) = Abs(TempOfStruct(b) - RT)

\* a group was processed whose candidates include 292 K and 294 K entries
C8_Witness ==
    /\ pc \in {"select", "selected"}
    /\ \E a, b \in Range(candidate_structs) :
          TempOfStruct(a) = RT - 1 /\ TempOfStruct(b) = RT + 1

\* the permutations of 1..n
Perms(n) == {p \in [1..n -> 1..n] : \A a, b \in 1..n : p[a] = p[b] => a = b}
Permuted(seq, p) == [k \in 1..Len(seq) |-> seq[p[k]]]
\* what one iteration selects from group g with its entries reordered by p
SelectPermuted(g, p) ==
    SelectEntry(Permuted(grouped_structs[g], p), Permuted(grouped_temps[g], p),
                Permuted(grouped_dates[g], p))
\* the entries of group g tied on the least deviation and the greatest date
BestIds(g) == {k \in EntryIds(g) : IsBest(g, k)}
LastOf(S) == CHOOSE k \in S : \A j \in S : j <= k

\* C10: given non-empty groups with string dates, the structure returned for a
\* group is that of the last, in the group's order, of the entries tied on
\* both the least deviation and the greatest date; and under every
\* reordering of the group the selected entry has the same deviation and date.
C10_LastOfTiedEntries ==
    (pc = "selected" /\ GroupsNonEmpty /\ DatesAreStrings) =>
        \A g \in GroupIds :
            /\ filtered_cmpds[g] = grouped_structs[g][LastOf(BestIds(g))]
            /\ \A p \in Perms(Len(grouped_structs[g])) :
                  /\ SelectPermuted(g, p).dev = Dev(g, LastOf(BestIds(g)))
                  /\ SelectPermuted(g, p).date = grouped_dates[g][LastOf(BestIds(g))]

\* a group with several fully tied entries, after an entry that is not tied,
\* for which some reordering selects another structure
C10_Witness ==
    /\ pc = "selected" /\ GroupsNonEmpty /\ DatesAreStrings
    /\ \E g \in GroupIds :
          /\ Cardinality(BestIds(g)) >= 2
          /\ Len(grouped_structs[g]) > Cardinality(BestIds(g))
          /\ filtered_cmpds[g] = grouped_structs[g][Len(grouped_structs[g])]
          /\ \E p \in Perms(Len(grouped_structs[g])) :
                SelectPermuted(g, p).struct # filtered_cmpds[g]

(***************************************************************************)
(* Properties of get_stoichiometric_info, checked under SpecIngest.        *)
(***************************************************************************)
OrderedFileIds == {k \in 1..Len(listing) : listing[k].is_ordered}

\* C7: when every file parses and the call returns, the returned structures
\* are exactly the fully ordered structures of the listing, in listing order,
\* and temps and dates hold one entry for each of them and none for a
\* partially occupied structure.
C7_ExactlyTheOrderedStructures ==
    pc = "ingested" =>
        /\ Len(stoich_structs) = Cardinality(OrderedFileIds)
        /\ Len(temps) = Cardinality(OrderedFileIds)
        /\ Len(dates) = Cardinality(OrderedFileIds)
        /\ \A j \in 1..Len(stoich_structs) :
              /\ stoich_structs[j].id \in OrderedFileIds
              /\ stoich_structs[j] =
                    StructureFromFile(stoich_structs[j].id, listing[stoich_structs[j].id])
        /\ \A i, j \in 1..Len(stoich_structs) :
              i < j => stoich_structs[i].id < stoich_structs[j].id

\* a returned call on a listing with partially occupied structures in the
\* first and the last place and an ordered one between them
C7_Witness ==
    /\ pc = "ingested"
    /\ Len(listing) >= 3
    /\ ~listing[1].is_ordered
    /\ listing[2].is_ordered
    /\ ~listing[Len(listing)].is_ordered
    /\ Len(stoich_structs) >= 1

(***************************************************************************)
(* Properties of get_unique_struct_info, checked under SpecGroup.          *)
(***************************************************************************)
InputIds == 1..Len(stoich_refs)
Reflexive == \A a \in InputIds : fit[a, a]
Symmetric == \A a, b \in InputIds : fit[a, b] => fit[b, a]
Transitive == \A a, b, c \in InputIds : (fit[a, b] /\ fit[b, c]) => fit[a, c]
ClassOf(a) == {b \in InputIds : fit[a, b]}
StrictlyIncreasing(seq) == \A i, j \in 1..Len(seq) : i < j => seq[i] < seq[j]
InGroup(s, g) == s \in Range(grouped_structs[g])

\* C2 as stated: whatever the matcher answers, the returned groups are
\* pairwise disjoint.
C2_GroupsDisjoint ==
    pc = "grouped" =>
        \A g, h \in GroupIds :
            g # h => Range(grouped_structs[g]) \cap Range(grouped_structs[h]) = {}

\* C2 amended: when the matcher is symmetric and transitive on the input, the
\* returned groups are pairwise disjoint.
C2_GroupsDisjointIfSymmetricTransitive ==
    (pc = "grouped" /\ Symmetric /\ Transitive) =>
        \A g, h \in GroupIds :
            g # h => Range(grouped_structs[g]) \cap Range(grouped_structs[h]) = {}

\* three structures under a symmetric and transitive matcher, two groups,
\* one of them with two structures
C2_Witness ==
    /\ pc = "grouped" /\ Symmetric /\ Transitive
    /\ Len(stoich_refs) = 3
    /\ Len(grouped_structs) = 2
    /\ \E g \in GroupIds : Len(grouped_structs[g]) = 2

\* C3: when every structure matches itself, every input structure is in at
\* least one returned group (symmetry and transitivity not assumed).
C3_EveryStructureGrouped ==
    (pc = "grouped" /\ Reflexive) =>
        \A s \in InputIds : \E g \in GroupIds : InGroup(s, g)

\* the position in the input of the k-th structure of group g
InputPos(g, k) == CHOOSE n \in InputIds : stoich_refs[n] = grouped_structs[g][k]

\* C4: get_stoichiometric_info returns three sequences of one length; and
\* get_unique_struct_info, given three sequences of one length, returns three
\* outer sequences with one entry per framework whose i-th inner sequences
\* have one length, the k-th temperature and date of group i being those the
\* input gives the k-th structure of group i.
C4_ParallelSequences ==
    /\ pc = "ingested" =>
          Len(stoich_structs) = Len(temps) /\ Len(temps) = Len(dates)
    /\ (pc = "grouped" /\ Len(stoich_refs) = Len(temps) /\ Len(temps) = Len(dates)) =>
          /\ Len(grouped_structs) = Len(unique_frameworks)
          /\ Len(grouped_temps) = Len(unique_frameworks)
          /\ Len(grouped_dates) = Len(unique_frameworks)
          /\ \A g \in GroupIds :
                /\ Len(grouped_temps[g]) = Len(grouped_structs[g])
                /\ Len(grouped_dates[g]) = Len(grouped_structs[g])
                /\ \A k \in EntryIds(g) :
                      /\ grouped_temps[g][k] = temps[InputPos(g, k)]
                      /\ grouped_dates[g][k] = dates[InputPos(g, k)]

\* two groups returned, one with two structures of different temperatures
\* and dates, the other with a structure of the first and one of its own
C4_Witness ==
    /\ pc = "grouped"
    /\ Len(grouped_structs) = 2
    /\ Len(grouped_structs[1]) = 2
    /\ grouped_temps[1][1] # grouped_temps[1][2]
    /\ grouped_dates[1][1] # grouped_dates[1][2]
    /\ Len(grouped_structs[2]) = 2
    /\ grouped_structs[2][1] \in Range(grouped_structs[1])

\* C5: when the matcher is an equivalence relation on the input, every
\* structure is in exactly one group, each group is an equivalence class
\* listed in input order, there are as many groups as classes, and the groups
\* are ordered by their first members' places in the input.
C5_GroupsAreEquivalenceClasses ==
    (pc = "grouped" /\ Reflexive /\ Symmetric /\ Transitive) =>
        /\ \A s \in InputIds :
              Cardinality({g \in GroupIds : InGroup(s, g)}) = 1
        /\ \A g \in GroupIds :
              /\ grouped_structs[g] # <<>>
              /\ StrictlyIncreasing(grouped_structs[g])
              /\ Range(grouped_structs[g]) = ClassOf(grouped_structs[g][1])
        /\ Len(grouped_structs) = Cardinality({ClassOf(s) : s \in InputIds})
        /\ \A g, h \in GroupIds :
              g < h => grouped_structs[g][1] < grouped_structs[h][1]

\* prototypes A, B, A: two groups, the A group first with both its structures
C5_Witness ==
    /\ pc = "grouped" /\ Reflexive /\ Symmetric /\ Transitive
    /\ grouped_structs = <<<<1, 3>>, <<2>>>>

\* the structures the first loop has gone through
Discovered == IF pc = "discover" THEN 1..(idx - 1) ELSE InputIds

\* C9: at every point of the call, a structure gone through by the first loop
\* is a framework iff matcher.fit(structure, f) is false for every framework
\* f before it; the first structure is a framework, the frameworks are in
\* input order, and no framework matches, as first argument, an earlier one.
C9_GreedyFirstFit ==
    pc \in {"discover", "form", "grouped"} =>
        /\ Range(unique_frameworks) \subseteq Discovered
        /\ StrictlyIncreasing(unique_frameworks)
        /\ \A s \in Discovered :
              s \in Range(unique_frameworks) <=>
                  \A f \in Range(unique_frameworks) : f < s => ~fit[s, f]
        /\ Discovered # {} => unique_frameworks[1] = 1
        /\ \A i, j \in 1..Len(unique_frameworks) :
              i < j => ~fit[unique_frameworks[j], unique_frameworks[i]]

\* the second structure matches the first as first argument only and is no
\* framework; the third matches nothing before it and is one
C9_Witness ==
    /\ pc = "grouped"
    /\ Len(stoich_refs) = 3
    /\ fit[2, 1] /\ ~fit[1, 2]
    /\ fit[1, 3] /\ ~fit[3, 1]
    /\ unique_frameworks = <<1, 3>>

=============================================================================
